---- MODULE Spec2Model ----
(***************************************************************************)
(* M5TimerCAM timer photo firmware (src/src/main.cpp): the loop() tick     *)
(* (button monitor, capture scheduler, light sleep), takeAndUploadPhoto,   *)
(* takePhoto, connectToWiFi, uploadPhotoToSupabase and handleShutdown as   *)
(* one sequential state machine.  pc is the position of the single thread  *)
(* of control; the button level, the WiFi association, the sensor, the TLS *)
(* peer and the HTTP response are the environment.                         *)
(***************************************************************************)
EXTENDS Integers, Sequences, FiniteSets, TLC

(***************************************************************************)
(* Bounds of the exploration (not program constants).                      *)
(***************************************************************************)
\* loop() ticks explored per boot
MaxTicks == 3
\* capture cycles explored per boot
MaxCycles == 1

(***************************************************************************)
(* Program constants.                                                      *)
(***************************************************************************)
PHOTO_INTERVAL_HOURS == 1
MS_PER_HOUR == 3600000
PHOTO_INTERVAL == PHOTO_INTERVAL_HOURS * MS_PER_HOUR
MAX_WIFI_RETRY == 3
WIFI_RETRY_DELAY == 5000
WIFI_ASSOC_TIMEOUT == 15000
WIFI_POLL_DELAY == 500
LIGHT_SLEEP_DURATION == 30000000
LONG_PRESS_MS == 3000
IDLE_MARGIN_MS == 60000
TICK_DELAY == 100
MIN_FREE_HEAP == 20000
MAX_FRAME_LEN == 500000
connectionRetries == 3
CONNECT_BACKOFF == 2000
chunkSize == 1024
RESPONSE_TIMEOUT == 15000
RESPONSE_POLL == 10

(***************************************************************************)
(* unsigned long (32 bit) clock values.  A value v is kept as the pair of  *)
(* its 16 bit halves, v = hi * 65536 + lo, so that sums and differences    *)
(* wrap modulo 2^32 exactly as the firmware's unsigned arithmetic does.    *)
(***************************************************************************)
Half == 65536

U32(n) == [hi |-> (n \div Half) % Half, lo |-> n % Half]

Add32(a, n) ==
    LET s == a.lo + n
    IN  [hi |-> (a.hi + (s \div Half)) % Half, lo |-> s % Half]

\* comparisons of a 32 bit value with a constant c < 2^31
Ge32(a, c) == IF a.hi >= Half \div 2 THEN TRUE ELSE a.hi * Half + a.lo >= c
Gt32(a, c) == IF a.hi >= Half \div 2 THEN TRUE ELSE a.hi * Half + a.lo > c
Lt32(a, c) == ~Ge32(a, c)

\* the value of a 32 bit quantity known to be below 2^31
Val32(a) == a.hi * Half + a.lo

Min(a, b) == IF a < b THEN a ELSE b

(***************************************************************************)
(* State.                                                                  *)
(*   environment : button (level of GPIO 4), wifi (WiFi.status()),         *)
(*                 frameSizes (the lengths the sensor may report),         *)
(*                 responses (what the server may answer)                  *)
(*   clock       : millis() and the stamps lastPhotoTime, buttonPressTime  *)
(*                 themselves, in the specification that follows them      *)
(*                 (SpecClock); NoClock in the others, which follow the    *)
(*                 differences only (see program, below)                   *)
(*   hardware    : wifiMode, wifiSleep (modem power save), ext0Wake,       *)
(*                 cameraInit, fb (TimerCAM.Camera.fb), client (the TLS    *)
(*                 socket), rx (unread response bytes)                     *)
(*   program     : pc, buttonPressed, the locals of the running functions, *)
(*                 and the three elapsed times the firmware computes from  *)
(*                 millis(): timeSinceLastPhoto = millis() - lastPhotoTime *)
(*                 (line 381), pressDuration = millis() - buttonPressTime  *)
(*                 (lines 350, 366; kept while buttonPressed)  and     *)
(*                 waited = millis() - startTime (line 125).  millis() and *)
(*                 the stamps are read in these differences only, and      *)
(*                 (millis() + d) - stamp = (millis() - stamp) + d modulo  *)
(*                 2^32, so each difference is kept as a 32 bit timer that *)
(*                 every delay advances.                                   *)
(*   observation : what the current tick / capture cycle / upload has done,*)
(*                 and contact: the press that began during a light sleep  *)
(*                 (origin), if there is one: for how long GPIO 4 has      *)
(*                 really been low (low, ms), how long the press was when  *)
(*                 it ended (len), and whether loop() has taken it up as a *)
(*                 new press (seen); kept until loop() has dealt with the  *)
(*                 release                                                 *)
(***************************************************************************)
VARIABLES pc, ticks, cycles,
          button, wifi, frameSizes, responses, clock,
          wifiMode, wifiSleep, ext0Wake, cameraInit, fb, client, rx,
          timeSinceLastPhoto, buttonPressed, pressDuration, contact,
          caller, wifiCaller, retry, waited,
          imageSize, imageData, attempt, connected, totalSent, success,
          tick, cyc, upl

envVars  == <<button, wifi, frameSizes, responses, clock>>
hwVars   == <<wifiMode, wifiSleep, ext0Wake, cameraInit, fb, client, rx>>
timerVars == <<timeSinceLastPhoto, pressDuration>>
clockVars == <<timerVars, contact>>
wifiVars == <<retry, waited>>
upVars   == <<imageSize, imageData, attempt, connected, totalSent, success>>
obsVars  == <<tick, cyc, upl>>
vars     == <<pc, ticks, cycles, envVars, hwVars, clockVars, buttonPressed,
              caller, wifiCaller,
              wifiVars, upVars, obsVars>>

NoFrame == [len |-> 0, buf |-> "none"]

\* the clock and the stamps are not followed
NoClock == [millis |-> "none"]

\* what one loop() tick has done so far
TickIdle == [press |-> "none", dur |-> U32(0), due |-> FALSE,
             timed |-> 0, manual |-> 0, slept |-> FALSE,
             steps |-> <<>>, badRadioOff |-> FALSE, badDeinit |-> FALSE]
\* what one takeAndUploadPhoto() call has done so far
CycIdle  == [active |-> FALSE, gets |-> 0, frees |-> 0, badFree |-> FALSE,
             frame |-> NoFrame, lost |-> FALSE, assoc |-> 0, maxWait |-> 0,
             uploads |-> 0]
\* what one uploadPhotoToSupabase() call has done so far
UplIdle  == [active |-> FALSE, pre |-> "none", conns |-> 0, backoffs |-> 0,
             lastFailed |-> FALSE, headers |-> 0, declared |-> 0,
             writes |-> 0, bytes |-> 0, short |-> FALSE, afterShort |-> 0,
             chunksOk |-> TRUE, arrival |-> -1, resp |-> <<>>,
             outcome |-> "none"]

\* the locals of the functions that are not running
LocalsIdle ==
    /\ caller = "none" /\ wifiCaller = "none"
    /\ retry = 0 /\ waited = U32(0)
    /\ imageSize = 0 /\ imageData = "none" /\ attempt = 0
    /\ connected = FALSE /\ totalSent = 0 /\ success = FALSE
    /\ tick = TickIdle /\ cyc = CycIdle /\ upl = UplIdle

(***************************************************************************)
(* Inputs.                                                                 *)
(***************************************************************************)
Levels == {"LOW", "HIGH"}
\* frame lengths around the validity limits and the chunk size
SmallFrames == {0, 1025}
AllFrames == {0, 1, 1024, 1025, 2048, 2049, MAX_FRAME_LEN, MAX_FRAME_LEN + 1}
Buffers == {"nullptr", "data"}
\* when, after WiFi.begin(), the access point may accept the station (ms)
AssocOffsets == {0, WIFI_ASSOC_TIMEOUT - WIFI_POLL_DELAY}
\* when, after light sleep started, a press may wake the device (ms)
WakeOffsets == {1234}
\* what ESP.getFreeHeap() may report
Heaps == {MIN_FREE_HEAP - 1, MIN_FREE_HEAP}
\* for how long the press may have been held at such a start (ms)
StartHeld == {LONG_PRESS_MS - 101, LONG_PRESS_MS - 100}
\* the time since the last timed capture at such a start: far from due
\* (the idle window is open), two ticks before the capture is due, and one
StartElapsed == {LONG_PRESS_MS + 200, PHOTO_INTERVAL - 200, PHOTO_INTERVAL - 100}

(***************************************************************************)
(* Environment.                                                            *)
(***************************************************************************)
\* no press that began during a light sleep is being followed
NoPress == [origin |-> "none", low |-> 0, len |-> 0, seen |-> FALSE]
\* a press begins now, during a light sleep
Pressed(origin) == [NoPress EXCEPT !.origin = origin]
\* the press ends now; one that loop() has not taken up leaves nothing to
\* follow
Released(c) == IF c.seen THEN [c EXCEPT !.low = 0, !.len = c.low] ELSE NoPress
\* the input stays as it is for d ms
Held(c, level, d) ==
    IF level = "LOW" /\ c.origin # "none" THEN [c EXCEPT !.low = @ + d] ELSE c

\* the user (or contact bounce) changes the level of GPIO 4.  button is the
\* level where the firmware depends on it next: at digitalRead() (line 340)
\* and, as the level of the ext0 wake source, at esp_light_sleep_start()
\* (line 181), where a release since the read lets the sleep begin; a press
\* at or after the start of a sleep is the wake event of SleepButtonWake /
\* DeepSleepWake
ButtonChange ==
    /\ \/ pc = "loop"
       \/ /\ pc = "timer" /\ button = "LOW"
          /\ Lt32(timeSinceLastPhoto, PHOTO_INTERVAL - IDLE_MARGIN_MS)
    /\ button' = IF button = "LOW" THEN "HIGH" ELSE "LOW"
    /\ contact' = IF button = "LOW" THEN Released(contact) ELSE NoPress
    /\ UNCHANGED <<pc, timerVars, ticks, cycles, wifi, frameSizes, responses, clock, hwVars,
                   buttonPressed, caller, wifiCaller, wifiVars, upVars,
                   obsVars>>

\* the access point drops the station.  wifi is WiFi.status() at the next
\* place that depends on it: the check of line 432, the guard of line 490,
\* client.connect() of line 531
WifiLost ==
    /\ wifi = "CONNECTED" /\ pc \in {"wifiCheck", "upload", "connect"}
    /\ wifi' = "DISCONNECTED"
    /\ UNCHANGED <<pc, clockVars, ticks, cycles, button, frameSizes, responses, clock, hwVars,
                   buttonPressed, caller, wifiCaller, wifiVars, upVars,
                   obsVars>>

(***************************************************************************)
(* loop(): the button monitor (lines 335-378).                             *)
(***************************************************************************)
\* line 350: the held press counts as long
LongPressHeld(d) == Gt32(d, LONG_PRESS_MS)
\* line 371: the released press counts as short
ShortPress(d) == Lt32(d, LONG_PRESS_MS)

\* d ms pass: millis() advances, and with it every elapsed time in use
Pass(d) ==
    /\ timeSinceLastPhoto' = Add32(timeSinceLastPhoto, d)
    /\ pressDuration' = IF buttonPressed THEN Add32(pressDuration, d)
                        ELSE pressDuration
    /\ contact' = Held(contact, button, d)

\* a button monitor that also runs while the payload is being written
LoopEntryDuringUpload(p) == p \in {"loop", "write"}

\* line 334: loop() is entered when the previous call has returned
LoopEntry(p) == p = "loop"

TickStart ==
    /\ LoopEntry(pc) /\ ticks < MaxTicks
    /\ ticks' = ticks + 1

\* lines 340-349: the input is low and no press was in progress
ButtonDown ==
    /\ TickStart /\ button = "LOW" /\ ~buttonPressed
    /\ buttonPressed' = TRUE
    /\ pressDuration' = U32(100)
    /\ timeSinceLastPhoto' = Add32(timeSinceLastPhoto, 100)
    /\ contact' = [Held(contact, button, 100)
                      EXCEPT !.seen = contact.origin # "none"]
    /\ pc' = "timer"
    /\ tick' = [TickIdle EXCEPT !.press = "down"]
    /\ UNCHANGED <<cycles, envVars, hwVars, caller, wifiCaller, wifiVars,
                   upVars, cyc, upl>>

\* lines 350-363: the press is held beyond the threshold: handleShutdown()
ButtonLong ==
    /\ TickStart /\ button = "LOW" /\ buttonPressed
    /\ LongPressHeld(pressDuration)
    /\ Pass(3 * (200 + 200))
    /\ pc' = "shutdown"
    /\ tick' = [TickIdle EXCEPT !.press = "long",
                                !.dur = pressDuration]
    /\ UNCHANGED <<cycles, envVars, hwVars, buttonPressed, caller, wifiCaller,
                   wifiVars, upVars, cyc, upl>>

\* lines 340-363: the press is held, not yet beyond the threshold
ButtonHeld ==
    /\ TickStart /\ button = "LOW" /\ buttonPressed
    /\ ~LongPressHeld(pressDuration)
    /\ pc' = "timer"
    /\ tick' = [TickIdle EXCEPT !.press = "held",
                                !.dur = pressDuration]
    /\ UNCHANGED <<cycles, clockVars, envVars, hwVars, buttonPressed, caller,
                   wifiCaller, wifiVars, upVars, cyc, upl>>

\* lines 364-375: released after a short press: takeAndUploadPhoto()
ButtonShort ==
    /\ TickStart /\ button = "HIGH" /\ buttonPressed
    /\ ShortPress(pressDuration)
    /\ cycles < MaxCycles
    /\ pc' = "photo" /\ caller' = "button" /\ cycles' = cycles + 1
    /\ tick' = [TickIdle EXCEPT !.press = "short", !.manual = 1,
                                !.dur = pressDuration]
    /\ contact' = NoPress
    /\ UNCHANGED <<timerVars, envVars, hwVars, buttonPressed, wifiCaller,
                   wifiVars, upVars, cyc, upl>>

\* lines 364-377: released after a press that was not short: nothing is done
ButtonReleasedLate ==
    /\ TickStart /\ button = "HIGH" /\ buttonPressed
    /\ ~ShortPress(pressDuration)
    /\ buttonPressed' = FALSE /\ pressDuration' = U32(0)
    /\ pc' = "timer"
    /\ tick' = [TickIdle EXCEPT !.press = "ignored",
                                !.dur = pressDuration]
    /\ contact' = NoPress
    /\ UNCHANGED <<cycles, timeSinceLastPhoto, envVars, hwVars,
                   caller, wifiCaller, wifiVars, upVars, cyc, upl>>

\* lines 364-377: the input is high and no press was in progress
ButtonIdle ==
    /\ TickStart /\ button = "HIGH" /\ ~buttonPressed
    /\ buttonPressed' = FALSE
    /\ pc' = "timer"
    /\ tick' = TickIdle
    /\ UNCHANGED <<cycles, clockVars, envVars, hwVars, caller, wifiCaller,
                   wifiVars, upVars, cyc, upl>>

(***************************************************************************)
(* loop(): the capture scheduler (lines 380-391) and delay(100) (line 421).*)
(***************************************************************************)
\* line 382
IsDue(elapsed) == Ge32(elapsed, PHOTO_INTERVAL)
\* lines 387-388, for an elapsed time below the interval
IdleWindow(elapsed) == PHOTO_INTERVAL - Val32(elapsed) > IDLE_MARGIN_MS

\* lines 381-383: the timed capture is due: takeAndUploadPhoto()
TimerDue ==
    /\ pc = "timer" /\ IsDue(timeSinceLastPhoto)
    /\ cycles < MaxCycles
    /\ pc' = "photo" /\ caller' = "timer" /\ cycles' = cycles + 1
    /\ tick' = [tick EXCEPT !.due = TRUE, !.timed = @ + 1]
    /\ UNCHANGED <<clockVars, ticks, envVars, hwVars, buttonPressed,
                   wifiCaller, wifiVars, upVars, cyc, upl>>

\* lines 385-390 and 172-181: enterLightSleep() up to esp_light_sleep_start()
TimerSleep ==
    /\ pc = "timer" /\ ~IsDue(timeSinceLastPhoto)
    /\ IdleWindow(timeSinceLastPhoto)
    /\ wifiSleep' = TRUE
    /\ pc' = "lightsleep"
    /\ tick' = [tick EXCEPT !.slept = TRUE]
    /\ UNCHANGED <<clockVars, ticks, cycles, envVars, wifiMode, ext0Wake,
                   cameraInit, fb, client, rx, buttonPressed, caller,
                   wifiCaller, wifiVars, upVars, cyc, upl>>

\* lines 385-391, 421: neither due nor far from due: delay(100)
TimerWait ==
    /\ pc = "timer" /\ ~IsDue(timeSinceLastPhoto)
    /\ ~IdleWindow(timeSinceLastPhoto)
    /\ Pass(TICK_DELAY)
    /\ pc' = "loop"
    /\ UNCHANGED <<ticks, cycles, envVars, hwVars, buttonPressed, caller,
                   wifiCaller, wifiVars, upVars, obsVars>>

\* a wake-up that leaves the modem power save as it is
SetSleepOnWakeOmitted(s) == s

\* line 186: WiFi.setSleep(false)
SetSleepOnWake(s) == FALSE

\* a light sleep that is entered with no timer wake-up source
TimerWakeupOmitted(us) == FALSE

\* line 180: esp_sleep_enable_timer_wakeup(LIGHT_SLEEP_DURATION)
TimerWakeup(us) == us > 0

\* lines 180-186, 421: the sleep timer expires; setSleep(false); delay(100)
SleepTimerWake ==
    /\ pc = "lightsleep" /\ ~(ext0Wake /\ button = "LOW")
    /\ TimerWakeup(LIGHT_SLEEP_DURATION)
    /\ Pass(LIGHT_SLEEP_DURATION \div 1000 + TICK_DELAY)
    /\ wifiSleep' = SetSleepOnWake(wifiSleep)
    /\ pc' = "loop"
    /\ UNCHANGED <<ticks, cycles, envVars, wifiMode, ext0Wake, cameraInit, fb,
                   client, rx, buttonPressed, caller, wifiCaller, wifiVars,
                   upVars, obsVars>>

\* lines 181-186, 331, 421: the low level of the armed ext0 source ends the
\* sleep, at once when the input is already low
SleepButtonWake ==
    /\ pc = "lightsleep" /\ ext0Wake
    /\ \E w \in IF button = "LOW" THEN {0} ELSE WakeOffsets :
          /\ timeSinceLastPhoto' = Add32(timeSinceLastPhoto, w + TICK_DELAY)
          /\ pressDuration' = IF buttonPressed
                              THEN Add32(pressDuration, w + TICK_DELAY)
                              ELSE pressDuration
    /\ button' = "LOW"
    /\ contact' = Held(IF button = "LOW" THEN contact ELSE Pressed("sleep"),
                       "LOW", TICK_DELAY)
    /\ wifiSleep' = SetSleepOnWake(wifiSleep)
    /\ pc' = "loop"
    /\ UNCHANGED <<ticks, cycles, wifi, frameSizes, responses, clock, wifiMode,
                   ext0Wake,
                   cameraInit, fb, client, rx, buttonPressed, caller,
                   wifiCaller, wifiVars, upVars, obsVars>>

\* lines 374-377: takeAndUploadPhoto() returns to the short-press branch
ReturnToButton ==
    /\ pc = "photoRet" /\ caller = "button"
    /\ buttonPressed' = FALSE /\ pressDuration' = U32(0)
    /\ pc' = "timer" /\ caller' = "none"
    /\ cyc' = CycIdle /\ upl' = UplIdle
    /\ UNCHANGED <<timeSinceLastPhoto, contact, ticks, cycles, envVars,
                   hwVars, wifiCaller, wifiVars, upVars, tick>>

\* lines 383-384, 421: takeAndUploadPhoto() returns to the timer branch
ReturnToTimer ==
    /\ pc = "photoRet" /\ caller = "timer"
    /\ timeSinceLastPhoto' = U32(TICK_DELAY)
    /\ pressDuration' = IF buttonPressed THEN Add32(pressDuration, TICK_DELAY)
                        ELSE pressDuration
    /\ contact' = Held(contact, button, TICK_DELAY)
    /\ pc' = "loop" /\ caller' = "none"
    /\ cyc' = CycIdle /\ upl' = UplIdle
    /\ UNCHANGED <<ticks, cycles, envVars, hwVars, buttonPressed, wifiCaller,
                   wifiVars, upVars, tick>>

(***************************************************************************)
(* handleShutdown() (lines 660-701) and the restart from deep sleep.       *)
(***************************************************************************)
\* lines 661-677: the LED announces the deep sleep
ShutdownBegin ==
    /\ pc = "shutdown"
    /\ Pass(5 * (200 + 200))
    /\ pc' = "sdDisconnect"
    /\ UNCHANGED <<ticks, cycles, envVars, hwVars, buttonPressed, caller,
                   wifiCaller, wifiVars, upVars, obsVars>>

\* line 681: WiFi.disconnect()
ShutdownDisconnect ==
    /\ pc = "sdDisconnect"
    /\ wifi' = "DISCONNECTED"
    /\ pc' = "sdRadioOff"
    /\ tick' = [tick EXCEPT !.steps = Append(@, "disconnect")]
    /\ UNCHANGED <<clockVars, ticks, cycles, button, frameSizes, responses, clock, hwVars,
                   buttonPressed, caller, wifiCaller, wifiVars, upVars,
                   cyc, upl>>

\* line 682: WiFi.mode(WIFI_OFF); the call is made whatever the mode is
ShutdownRadioOff ==
    /\ pc = "sdRadioOff"
    /\ wifiMode' = "OFF"
    /\ pc' = "sdDeinit"
    /\ tick' = [tick EXCEPT !.steps = Append(@, "radioOff"),
                            !.badRadioOff = @ \/ wifiMode = "OFF"]
    /\ UNCHANGED <<clockVars, ticks, cycles, envVars, wifiSleep, ext0Wake,
                   cameraInit, fb, client, rx, buttonPressed, caller,
                   wifiCaller, wifiVars, upVars, cyc, upl>>

\* a shutdown that leaves the camera driver as it is
CameraDeinitSkipped(init) == init

\* line 683: TimerCAM.Camera.deinit()
CameraDeinit(init) == FALSE

\* lines 683-688: Camera.deinit(), called whether or not the camera is
\* initialised; Serial.flush(); delay(1000)
ShutdownDeinit ==
    /\ pc = "sdDeinit"
    /\ cameraInit' = CameraDeinit(cameraInit)
    /\ Pass(1000)
    /\ pc' = "sdWake"
    /\ tick' = [tick EXCEPT !.steps = @ \o <<"deinit", "flush">>,
                            !.badDeinit = @ \/ ~cameraInit]
    /\ UNCHANGED <<ticks, cycles, envVars, wifiMode, wifiSleep, ext0Wake, fb,
                   client, rx, buttonPressed, caller, wifiCaller, wifiVars,
                   upVars, cyc, upl>>

\* a halt that returns to the caller, and so to the next tick of loop()
DeepSleepReturns == "loop"

\* line 700: esp_deep_sleep_start() does not return
DeepSleepStart == "deepsleep"

\* lines 690-700: arm ext0 (active low); flush; delay(500); esp_deep_sleep_start()
ShutdownSleep ==
    /\ pc = "sdWake"
    /\ ext0Wake' = TRUE
    /\ Pass(500)
    /\ pc' = DeepSleepStart
    /\ tick' = [tick EXCEPT !.steps = @ \o <<"ext0", "flush">>]
    /\ UNCHANGED <<ticks, cycles, envVars, wifiMode, wifiSleep, cameraInit,
                   fb, client, rx, buttonPressed, caller, wifiCaller,
                   wifiVars, upVars, cyc, upl>>

\* the low level of ext0 restarts the chip: every variable is recreated
DeepSleepWake ==
    /\ pc = "deepsleep" /\ ext0Wake
    /\ button' = "LOW"
    /\ pc' = "setup" /\ ticks' = 0 /\ cycles' = 0
    /\ wifi' = "DISCONNECTED"
    /\ wifiMode' = "OFF" /\ wifiSleep' = TRUE /\ ext0Wake' = FALSE
    /\ cameraInit' = FALSE /\ fb' = NoFrame /\ client' = "closed" /\ rx' = <<>>
    /\ timeSinceLastPhoto' = U32(0)
    /\ buttonPressed' = FALSE /\ pressDuration' = U32(0)
    /\ contact' = NoPress
    /\ caller' = "none" /\ wifiCaller' = "none"
    /\ retry' = 0 /\ waited' = U32(0)
    /\ imageSize' = 0 /\ imageData' = "none" /\ attempt' = 0
    /\ connected' = FALSE /\ totalSent' = 0 /\ success' = FALSE
    /\ tick' = TickIdle /\ cyc' = CycIdle /\ upl' = UplIdle
    /\ UNCHANGED <<frameSizes, responses, clock>>

(***************************************************************************)
(* connectToWiFi() (lines 112-155), called by setup() and by               *)
(* takeAndUploadPhoto().                                                   *)
(***************************************************************************)
\* lines 113-116: WiFi.mode(WIFI_STA); WiFi.setSleep(false); retry = 0
CallConnectToWiFi(from) ==
    /\ wifiCaller' = from
    /\ wifiMode' = "STA" /\ wifiSleep' = FALSE
    /\ retry' = 0
    /\ pc' = "wifiBegin"

\* an association wait that ends one poll late
StillWaitingLate(elapsed) ==
    wifi # "CONNECTED" /\ ~Gt32(elapsed, WIFI_ASSOC_TIMEOUT)

\* line 125: the association wait goes on
StillWaiting(elapsed) == wifi # "CONNECTED" /\ Lt32(elapsed, WIFI_ASSOC_TIMEOUT)

\* lines 122-124: WiFi.begin(); startTime = millis()
WifiBegin ==
    /\ pc = "wifiBegin"
    /\ waited' = U32(0)
    /\ pc' = "wifiWait"
    /\ cyc' = IF cyc.active THEN [cyc EXCEPT !.assoc = @ + 1] ELSE cyc
    /\ UNCHANGED <<clockVars, ticks, cycles, envVars, hwVars, buttonPressed,
                   caller, wifiCaller, retry, upVars, tick, upl>>

\* the access point accepts the station while the firmware waits for it
WifiAssociated ==
    /\ pc = "wifiWait" /\ wifi = "DISCONNECTED"
    /\ Val32(waited) \in AssocOffsets
    /\ wifi' = "CONNECTED"
    /\ UNCHANGED <<pc, clockVars, ticks, cycles, button, frameSizes, responses, clock, hwVars,
                   buttonPressed, caller, wifiCaller, wifiVars, upVars,
                   obsVars>>

\* lines 125-128: one round of the wait: delay(500)
WifiPoll ==
    /\ pc = "wifiWait" /\ StillWaiting(waited)
    /\ Pass(WIFI_POLL_DELAY)
    /\ waited' = Add32(waited, WIFI_POLL_DELAY)
    /\ cyc' = IF cyc.active /\ Val32(waited') > cyc.maxWait
              THEN [cyc EXCEPT !.maxWait = Val32(waited')]
              ELSE cyc
    /\ UNCHANGED <<pc, ticks, cycles, envVars, hwVars, buttonPressed, caller,
                   wifiCaller, retry, upVars, tick, upl>>

\* lines 130-138: associated: return true
WifiConnected ==
    /\ pc = "wifiWait" /\ ~StillWaiting(waited)
    /\ wifi = "CONNECTED"
    /\ pc' = IF wifiCaller = "setup" THEN "setupOnline" ELSE "upload"
    /\ wifiCaller' = "none" /\ retry' = 0 /\ waited' = U32(0)
    /\ UNCHANGED <<clockVars, ticks, cycles, envVars, hwVars, buttonPressed,
                   caller, upVars, obsVars>>

\* lines 139-150: not associated, attempts left: delay(WIFI_RETRY_DELAY)
WifiRetry ==
    /\ pc = "wifiWait" /\ ~StillWaiting(waited)
    /\ wifi # "CONNECTED" /\ retry < MAX_WIFI_RETRY - 1
    /\ Pass(WIFI_RETRY_DELAY)
    /\ retry' = retry + 1
    /\ pc' = "wifiBegin"
    /\ UNCHANGED <<ticks, cycles, envVars, hwVars, buttonPressed, caller,
                   wifiCaller, waited, upVars, obsVars>>

\* lines 139-154: not associated after the last attempt: return false
WifiGiveUp ==
    /\ pc = "wifiWait" /\ ~StillWaiting(waited)
    /\ wifi # "CONNECTED" /\ ~(retry < MAX_WIFI_RETRY - 1)
    /\ pc' = IF wifiCaller = "setup" THEN "setupOffline" ELSE "wifiFailed"
    /\ wifiCaller' = "none" /\ retry' = 0 /\ waited' = U32(0)
    /\ UNCHANGED <<clockVars, ticks, cycles, envVars, hwVars, buttonPressed,
                   caller, upVars, obsVars>>

(***************************************************************************)
(* setup() (lines 189-332).                                                *)
(***************************************************************************)
\* lines 247-256: Camera.begin() fails: ten LED toggles, return
SetupCameraFail ==
    /\ pc = "setup"
    /\ Pass(10 * 200)
    /\ pc' = "loop"
    /\ UNCHANGED <<ticks, cycles, envVars, hwVars, buttonPressed, caller,
                   wifiCaller, wifiVars, upVars, obsVars>>

\* lines 247-267: Camera.begin() succeeds: connectToWiFi()
SetupCameraOk ==
    /\ pc = "setup"
    /\ cameraInit' = TRUE
    /\ CallConnectToWiFi("setup")
    /\ UNCHANGED <<clockVars, ticks, cycles, envVars, ext0Wake, fb, client,
                   rx, buttonPressed, caller, waited, upVars, obsVars>>

\* lines 270-331: time sync, three LED blinks, lastPhotoTime = millis(),
\* arm ext0 (active low)
SetupOnline ==
    /\ pc = "setupOnline"
    /\ timeSinceLastPhoto' = U32(0)
    /\ ext0Wake' = TRUE
    /\ pc' = "loop"
    /\ UNCHANGED <<pressDuration, contact, ticks, cycles, envVars, wifiMode,
                   wifiSleep, cameraInit,
                   fb, client, rx, buttonPressed, caller, wifiCaller,
                   wifiVars, upVars, obsVars>>

\* lines 267-269, 292-331: no network: the same without the time sync
SetupOffline ==
    /\ pc = "setupOffline"
    /\ timeSinceLastPhoto' = U32(0)
    /\ ext0Wake' = TRUE
    /\ pc' = "loop"
    /\ UNCHANGED <<pressDuration, contact, ticks, cycles, envVars, wifiMode,
                   wifiSleep, cameraInit,
                   fb, client, rx, buttonPressed, caller, wifiCaller,
                   wifiVars, upVars, obsVars>>

(***************************************************************************)
(* takePhoto() (lines 71-109) and takeAndUploadPhoto() (lines 425-486).    *)
(***************************************************************************)
\* line 73
HeapLow(heap) == heap < MIN_FREE_HEAP
\* a validation without the upper limit of line 88
FrameRejectedNoLimit(f) == f.len = 0 \/ f.buf = "nullptr"

\* lines 82-99: the frame is rejected after Camera.get()
FrameRejected(f) == f.len = 0 \/ f.len > MAX_FRAME_LEN \/ f.buf = "nullptr"

\* a capture cycle that omits the release
CameraFreeSkipped(c, held) == [cyc |-> c, fb |-> held]

\* TimerCAM.Camera.free() (lines 84, 90, 97, 444, 481): the held frame goes
\* back to the driver; a call that holds none is recorded
CameraFree(c, held) ==
    [cyc |-> [c EXCEPT !.frees = @ + 1, !.badFree = @ \/ (held = NoFrame)],
     fb  |-> NoFrame]

\* lines 426-430, 73-76, 483-485: too little heap: no Camera.get()
TakePhotoNoHeap ==
    /\ pc = "photo"
    /\ \E heap \in Heaps : HeapLow(heap)
    /\ cyc' = [CycIdle EXCEPT !.active = TRUE]
    /\ pc' = "photoRet"
    /\ UNCHANGED <<clockVars, ticks, cycles, envVars, hwVars, buttonPressed,
                   caller, wifiCaller, wifiVars, upVars, tick, upl>>

\* lines 78, 104-108, 483-485: Camera.get() returns false
TakePhotoFail ==
    /\ pc = "photo"
    /\ \E heap \in Heaps : ~HeapLow(heap)
    /\ cyc' = [CycIdle EXCEPT !.active = TRUE]
    /\ pc' = "photoRet"
    /\ UNCHANGED <<clockVars, ticks, cycles, envVars, hwVars, buttonPressed,
                   caller, wifiCaller, wifiVars, upVars, tick, upl>>

\* lines 78-108: Camera.get() returns a frame; a rejected frame is freed at
\* once and the capture fails, an accepted one stays held
TakePhotoFrame ==
    /\ pc = "photo" /\ cameraInit
    /\ \E heap \in Heaps : ~HeapLow(heap)
    /\ \E len \in frameSizes, buf \in Buffers :
          LET f == [len |-> len, buf |-> buf]
              got == [CycIdle EXCEPT !.active = TRUE, !.gets = 1, !.frame = f]
          IN  IF FrameRejected(f)
              THEN /\ cyc' = CameraFree(got, f).cyc
                   /\ fb' = CameraFree(got, f).fb
                   /\ pc' = "photoRet"
              ELSE /\ cyc' = got
                   /\ fb' = f
                   /\ pc' = "wifiCheck"
    /\ UNCHANGED <<clockVars, ticks, cycles, envVars, wifiMode, wifiSleep,
                   ext0Wake, cameraInit, client, rx, buttonPressed, caller,
                   wifiCaller, wifiVars, upVars, tick, upl>>

\* lines 432-434: the station is not associated: connectToWiFi()
PhotoReconnect ==
    /\ pc = "wifiCheck" /\ wifi # "CONNECTED"
    /\ CallConnectToWiFi("photo")
    /\ cyc' = [cyc EXCEPT !.lost = TRUE]
    /\ UNCHANGED <<clockVars, ticks, cycles, envVars, ext0Wake, cameraInit,
                   fb, client, rx, buttonPressed, caller, waited, upVars,
                   tick, upl>>

\* line 432: the station is associated
PhotoOnline ==
    /\ pc = "wifiCheck" /\ wifi = "CONNECTED"
    /\ pc' = "upload"
    /\ UNCHANGED <<clockVars, ticks, cycles, envVars, hwVars, buttonPressed,
                   caller, wifiCaller, wifiVars, upVars, obsVars>>

\* lines 435-445: the reconnection failed: three LED blinks, Camera.free()
PhotoWifiFailed ==
    /\ pc = "wifiFailed"
    /\ Pass(3 * (100 + 100))
    /\ cyc' = CameraFree(cyc, fb).cyc
    /\ fb' = CameraFree(cyc, fb).fb
    /\ pc' = "photoRet"
    /\ UNCHANGED <<ticks, cycles, envVars, wifiMode, wifiSleep, ext0Wake,
                   cameraInit, client, rx, buttonPressed, caller, wifiCaller,
                   wifiVars, upVars, tick, upl>>

\* lines 457-481: uploadPhotoToSupabase() has returned: two LED blinks on
\* success, five on failure, then Camera.free()
PhotoUploaded ==
    /\ pc = "uploadRet"
    /\ Pass(IF success THEN 2 * (150 + 150) ELSE 5 * (100 + 100))
    /\ cyc' = CameraFree(cyc, fb).cyc
    /\ fb' = CameraFree(cyc, fb).fb
    /\ pc' = "photoRet"
    /\ imageSize' = 0 /\ imageData' = "none" /\ attempt' = 0
    /\ connected' = FALSE /\ totalSent' = 0 /\ success' = FALSE
    /\ UNCHANGED <<ticks, cycles, envVars, wifiMode, wifiSleep, ext0Wake,
                   cameraInit, client, rx, buttonPressed, caller, wifiCaller,
                   wifiVars, tick, upl>>

(***************************************************************************)
(* Text as the firmware handles it: a String is a sequence of characters.  *)
(***************************************************************************)
\* isspace() of String::trim()
IsSpace(c) == c \in {" ", "\t", "\n", "\r", "\f"}

RECURSIVE TrimLeft(_)
TrimLeft(s) == IF s # <<>> /\ IsSpace(Head(s)) THEN TrimLeft(Tail(s)) ELSE s

RECURSIVE TrimRight(_)
TrimRight(s) ==
    IF s # <<>> /\ IsSpace(s[Len(s)]) THEN TrimRight(SubSeq(s, 1, Len(s) - 1))
    ELSE s

\* String::trim()
Trim(s) == TrimRight(TrimLeft(s))

\* String::startsWith()
StartsWith(s, p) == Len(s) >= Len(p) /\ SubSeq(s, 1, Len(p)) = p

\* String::indexOf(): the first position (from 0) of p in s, -1 when absent
IndexOf(s, p) ==
    LET at == {i \in 0..(Len(s) - Len(p)) : SubSeq(s, i + 1, i + Len(p)) = p}
    IN  IF at = {} THEN -1 ELSE CHOOSE i \in at : \A j \in at : i <= j

\* Stream::readStringUntil(): <<the characters before the terminator, the
\* stream after it>>; without a terminator the whole stream is returned
ReadStringUntil(stream, term) ==
    LET at == {i \in 1..Len(stream) : stream[i] = term}
    IN  IF at = {} THEN <<stream, <<>> >>
        ELSE LET k == CHOOSE i \in at : \A j \in at : i <= j
             IN  <<SubSeq(stream, 1, k - 1), SubSeq(stream, k + 1, Len(stream))>>

HTTP11 == <<"H", "T", "T", "P", "/", "1", ".", "1">>
HTTP10 == <<"H", "T", "T", "P", "/", "1", ".", "0">>
Code200 == <<"2", "0", "0">>
Code201 == <<"2", "0", "1">>
CRLF == <<"\r", "\n">>

\* lines 622-630: what one trimmed line contributes to success
LineIsSuccess(line) ==
    /\ StartsWith(line, HTTP11)
    /\ (IndexOf(line, Code200) > 0 \/ IndexOf(line, Code201) > 0)

\* lines 618-636: the header loop over the available bytes; the value of
\* success when the loop ends
RECURSIVE HeaderLoop(_, _)
HeaderLoop(stream, ok) ==
    IF stream = <<>> THEN ok
    ELSE LET r == ReadStringUntil(stream, "\n")
             line == Trim(r[1])
             ok2 == ok \/ LineIsSuccess(line)
         IN  IF Len(line) = 0 THEN ok2 ELSE HeaderLoop(r[2], ok2)

\* the responses the server may send
Resp200 == HTTP11 \o <<" ">> \o Code200 \o <<" ", "O", "K">> \o CRLF \o CRLF
Resp201 == HTTP11 \o <<" ">> \o Code201 \o CRLF \o <<"X", ":", "1">> \o CRLF \o CRLF
Resp404 == HTTP11 \o <<" ", "4", "0", "4">> \o CRLF \o CRLF \o <<"{", "}">>
\* 201 inside an unrelated number of the reason phrase
Resp500Id == HTTP11 \o <<" ", "5", "0", "0", " ", "i", "d", "1", "2", "0", "1", "0">>
                \o CRLF \o CRLF
\* 200 in a header line, not in the status line
RespHeader200 == HTTP11 \o <<" ", "4", "0", "3">> \o CRLF
                    \o <<"N", ":", " ">> \o Code200 \o CRLF \o CRLF
\* a blank line before anything else
RespBlankFirst == CRLF \o Resp200
\* an HTTP/1.0 status line
Resp10 == HTTP10 \o <<" ">> \o Code200 \o <<" ", "O", "K">> \o CRLF \o CRLF
Responses == {Resp200, Resp201, Resp404, Resp500Id, RespHeader200,
              RespBlankFirst, Resp10}
FewResponses == {Resp200, Resp404}

\* when, after the last payload byte, the first response byte may arrive (ms)
RespArrivals == {0, RESPONSE_TIMEOUT + 1, RESPONSE_TIMEOUT + RESPONSE_POLL + 1}

\* lines 604-612: the wait polls every RESPONSE_POLL ms, first at once; the
\* first poll that sees a byte arrived after a ms
PollSeeing(a) == ((a + RESPONSE_POLL - 1) \div RESPONSE_POLL) * RESPONSE_POLL
\* the first poll at which millis() - timeout > 15000
TimeoutPoll == (RESPONSE_TIMEOUT \div RESPONSE_POLL + 1) * RESPONSE_POLL
\* available() is tested before the timeout at every poll
SeenInTime(a) == PollSeeing(a) <= TimeoutPoll

\* a chunk length that ignores what is left of the frame
ChunkLenWhole(size, sent) == chunkSize

\* line 575
ChunkLen(size, sent) == Min(chunkSize, size - sent)
\* what client.write() may return for a chunk of n bytes
WriteResults(n) == {n, n - 1, 0}

(***************************************************************************)
(* uploadPhotoToSupabase() (lines 489-658).                                *)
(***************************************************************************)
\* a return path that omits client.stop()
StopOmitted(c) == c

\* client.stop() (lines 585, 608, 648)
Stop(c) == "closed"

\* lines 490-498: the guards in front of the connection
UploadRefused(data, size) ==
    IF wifi # "CONNECTED" THEN "NetworkUnavailable"
    ELSE IF data = "nullptr" \/ size = 0 THEN "InvalidImage"
    ELSE "none"

\* lines 457, 489-524: the call with the held frame and its guards
UploadEntry ==
    /\ pc = "upload"
    /\ LET why == UploadRefused(fb.buf, fb.len)
           seen == [UplIdle EXCEPT !.active = TRUE, !.pre = wifi]
       IN  IF why # "none"
           THEN /\ upl' = [seen EXCEPT !.outcome = why]
                /\ pc' = "uploadRet"
                /\ UNCHANGED <<imageData, imageSize>>
           ELSE /\ upl' = seen
                /\ imageData' = fb.buf /\ imageSize' = fb.len
                /\ pc' = "connect"
    /\ attempt' = 0 /\ connected' = FALSE /\ totalSent' = 0 /\ success' = FALSE
    /\ cyc' = [cyc EXCEPT !.uploads = @ + 1]
    /\ UNCHANGED <<clockVars, ticks, cycles, envVars, hwVars, buttonPressed,
                   caller, wifiCaller, wifiVars, tick>>

\* line 526: the retry loop goes on
ConnectAgain(i, conn) == i < connectionRetries /\ ~conn
\* a backoff after every failed attempt, the last one included
BackoffAlways(i) == i < connectionRetries

\* line 538: the backoff follows a failed attempt
BackoffAfter(i) == i < connectionRetries - 1

\* lines 526-534: client.connect() succeeds
ConnectOk ==
    /\ pc = "connect" /\ ConnectAgain(attempt, connected)
    /\ wifi = "CONNECTED"
    /\ connected' = TRUE /\ client' = "open"
    /\ attempt' = attempt + 1
    /\ upl' = [upl EXCEPT !.conns = @ + 1, !.lastFailed = FALSE]
    /\ pc' = "headers"
    /\ UNCHANGED <<clockVars, ticks, cycles, envVars, wifiMode, wifiSleep,
                   ext0Wake, cameraInit, fb, rx, buttonPressed, caller,
                   wifiCaller, wifiVars, imageSize, imageData, totalSent,
                   success, tick, cyc>>

\* lines 526-547: client.connect() fails: delay(2000) when attempts are
\* left; after the last attempt return false
ConnectFail ==
    /\ pc = "connect" /\ ConnectAgain(attempt, connected)
    /\ Pass(IF BackoffAfter(attempt) THEN CONNECT_BACKOFF ELSE 0)
    /\ attempt' = attempt + 1
    /\ LET tried == [upl EXCEPT !.conns = @ + 1, !.lastFailed = TRUE,
                       !.backoffs = IF BackoffAfter(attempt) THEN @ + 1 ELSE @]
       IN  IF ConnectAgain(attempt', connected)
           THEN upl' = tried /\ pc' = "connect"
           ELSE upl' = [tried EXCEPT !.outcome = "ConnectFailed"]
                /\ pc' = "uploadRet"
    /\ UNCHANGED <<ticks, cycles, envVars, hwVars, buttonPressed,
                   caller, wifiCaller, wifiVars, imageSize, imageData,
                   connected, totalSent, success, tick, cyc>>

\* a header that declares one byte more than the frame holds
ContentLengthPadded(size) == size + 1

\* line 560: "Content-Length: " + String(imageSize)
ContentLength(size) == size

\* lines 549-572: the request line and the headers, Content-Length included,
\* in one client.print()
SendHeaders ==
    /\ pc = "headers"
    /\ upl' = [upl EXCEPT !.headers = @ + 1,
                          !.declared = ContentLength(imageSize)]
    /\ totalSent' = 0
    /\ pc' = "write"
    /\ UNCHANGED <<clockVars, ticks, cycles, envVars, hwVars, buttonPressed,
                   caller, wifiCaller, wifiVars, imageSize, imageData,
                   attempt, connected, success, tick, cyc>>

\* the record of one client.write() of n bytes at offset totalSent
Wrote(n, got) ==
    [upl EXCEPT !.writes = @ + 1, !.bytes = @ + got,
                !.afterShort = IF upl.short THEN @ + 1 ELSE @,
                !.short = @ \/ got # n,
                !.chunksOk = @ /\ (n = chunkSize \/ totalSent + n = imageSize)
                               /\ upl.bytes = totalSent]

\* lines 574-599: one chunk is written whole: delay(1)
WriteChunk ==
    /\ pc = "write" /\ totalSent < imageSize
    /\ LET n == ChunkLen(imageSize, totalSent)
       IN  /\ n \in WriteResults(n)
           /\ totalSent' = totalSent + n
           /\ upl' = Wrote(n, n)
    /\ Pass(1)
    /\ UNCHANGED <<pc, ticks, cycles, envVars, hwVars, buttonPressed, caller,
                   wifiCaller, wifiVars, imageSize, imageData, attempt,
                   connected, success, tick, cyc>>

\* lines 574-587: client.write() returns another count: stop, return false
WriteShort ==
    /\ pc = "write" /\ totalSent < imageSize
    /\ LET n == ChunkLen(imageSize, totalSent)
       IN  \E got \in WriteResults(n) \ {n} :
              upl' = [Wrote(n, got) EXCEPT !.outcome = "WriteFailed"]
    /\ client' = Stop(client)
    /\ pc' = "uploadRet"
    /\ UNCHANGED <<clockVars, ticks, cycles, envVars, wifiMode, wifiSleep,
                   ext0Wake, cameraInit, fb, rx, buttonPressed, caller,
                   wifiCaller, wifiVars, upVars, tick, cyc>>

\* lines 601-612: a response byte is seen by a poll before the timeout
ResponseSeen ==
    /\ pc = "write" /\ ~(totalSent < imageSize)
    /\ \E a \in RespArrivals :
          /\ SeenInTime(a)
          /\ Pass(PollSeeing(a))
          /\ upl' = [upl EXCEPT !.arrival = a]
    /\ \E r \in responses : rx' = r
    /\ pc' = "parse"
    /\ UNCHANGED <<ticks, cycles, envVars, wifiMode, wifiSleep, ext0Wake,
                   cameraInit, fb, client, buttonPressed, caller, wifiCaller,
                   wifiVars, upVars, tick, cyc>>

\* lines 604-610: no byte until millis() - timeout > 15000: stop, return false
ResponseTimeout ==
    /\ pc = "write" /\ ~(totalSent < imageSize)
    /\ \E a \in RespArrivals :
          /\ ~SeenInTime(a)
          /\ upl' = [upl EXCEPT !.arrival = a, !.outcome = "Timeout"]
    /\ Pass(TimeoutPoll)
    /\ client' = Stop(client)
    /\ pc' = "uploadRet"
    /\ UNCHANGED <<ticks, cycles, envVars, wifiMode, wifiSleep, ext0Wake,
                   cameraInit, fb, rx, buttonPressed, caller, wifiCaller,
                   wifiVars, upVars, tick, cyc>>

\* lines 614-657: the status is read, the rest is drained, client.stop()
ParseResponse ==
    /\ pc = "parse"
    /\ success' = HeaderLoop(rx, FALSE)
    /\ upl' = [upl EXCEPT !.resp = rx,
                          !.outcome = IF success' THEN "Success"
                                      ELSE "ServerRejected"]
    /\ rx' = <<>>
    /\ client' = Stop(client)
    /\ pc' = "uploadRet"
    /\ UNCHANGED <<clockVars, ticks, cycles, envVars, wifiMode, wifiSleep,
                   ext0Wake, cameraInit, fb, buttonPressed, caller,
                   wifiCaller, wifiVars, imageSize, imageData, attempt,
                   connected, totalSent, tick, cyc>>

(***************************************************************************)
(* Initial states.                                                         *)
(*   InitBoot    : power-on, before setup().                               *)
(*   InitRunning : a tick boundary of loop() that follows a successful     *)
(*     setup() after idle ticks only: no capture has run                   *)
(*     yet, and either no press is in progress or the button was first     *)
(*     read low some StartHeld ms ago and at every tick since.             *)
(***************************************************************************)
InitBoot ==
    /\ pc = "setup" /\ ticks = 0 /\ cycles = 0
    /\ button \in Levels /\ wifi = "DISCONNECTED"
    /\ wifiMode = "OFF" /\ wifiSleep = TRUE /\ ext0Wake = FALSE
    /\ cameraInit = FALSE /\ fb = NoFrame /\ client = "closed" /\ rx = <<>>
    /\ timeSinceLastPhoto = U32(0)
    /\ buttonPressed = FALSE /\ pressDuration = U32(0)
    /\ contact = NoPress
    /\ LocalsIdle

InitRunning ==
    /\ pc = "loop" /\ ticks = 0 /\ cycles = 0
    /\ \E e \in StartElapsed : timeSinceLastPhoto = U32(e)
    /\ button \in Levels /\ wifi \in {"CONNECTED", "DISCONNECTED"}
    /\ wifiMode = "STA" /\ wifiSleep = FALSE /\ ext0Wake = TRUE
    /\ cameraInit = TRUE /\ fb = NoFrame /\ client = "closed" /\ rx = <<>>
    /\ \/ buttonPressed = FALSE /\ pressDuration = U32(0)
       \/ /\ buttonPressed = TRUE
          /\ \E h \in StartHeld : pressDuration = U32(h)
    /\ contact = NoPress
    /\ LocalsIdle

\* a tick boundary of loop() in a boot whose Camera.begin() failed: setup()
\* returned at line 255, before connectToWiFi(), before lastPhotoTime was
\* set (it is 0, the elapsed time is the uptime) and before ext0 was armed
InitRunningNoCamera ==
    /\ pc = "loop" /\ ticks = 0 /\ cycles = 0
    /\ \E e \in StartElapsed : timeSinceLastPhoto = U32(e)
    /\ button \in Levels /\ wifi = "DISCONNECTED"
    /\ wifiMode = "OFF" /\ wifiSleep = FALSE /\ ext0Wake = FALSE
    /\ cameraInit = FALSE /\ fb = NoFrame /\ client = "closed" /\ rx = <<>>
    /\ buttonPressed = FALSE /\ pressDuration = U32(0)
    /\ contact = NoPress
    /\ LocalsIdle

\* the whole firmware, with few frame lengths and responses
Init ==
    /\ InitBoot \/ InitRunning \/ InitRunningNoCamera
    /\ frameSizes = SmallFrames /\ responses = FewResponses
    /\ clock = NoClock

\* one timed capture cycle, with every frame length and response: the state
\* in which loop() calls takeAndUploadPhoto() (line 383) at the second tick
\* after an InitRunning state one tick before the capture is due
InitCycle ==
    /\ pc = "photo" /\ ticks = 2 /\ cycles = 1
    /\ timeSinceLastPhoto = U32(PHOTO_INTERVAL)
    /\ button = "HIGH" /\ wifi \in {"CONNECTED", "DISCONNECTED"}
    /\ wifiMode = "STA" /\ wifiSleep = FALSE /\ ext0Wake = TRUE
    /\ cameraInit = TRUE /\ fb = NoFrame /\ client = "closed" /\ rx = <<>>
    /\ buttonPressed = FALSE /\ pressDuration = U32(0)
    /\ contact = NoPress
    /\ caller = "timer" /\ wifiCaller = "none"
    /\ retry = 0 /\ waited = U32(0)
    /\ imageSize = 0 /\ imageData = "none" /\ attempt = 0
    /\ connected = FALSE /\ totalSent = 0 /\ success = FALSE
    /\ tick = [TickIdle EXCEPT !.due = TRUE, !.timed = 1]
    /\ cyc = CycIdle /\ upl = UplIdle
    /\ frameSizes = AllFrames /\ responses = Responses
    /\ clock = NoClock

(***************************************************************************)
(* The firmware.                                                           *)
(***************************************************************************)
Environment == ButtonChange \/ WifiLost \/ WifiAssociated

Monitor ==
    \/ ButtonDown \/ ButtonLong \/ ButtonHeld \/ ButtonShort
    \/ ButtonReleasedLate \/ ButtonIdle

Scheduler ==
    \/ TimerDue \/ TimerSleep \/ TimerWait \/ SleepTimerWake \/ SleepButtonWake
    \/ ReturnToButton \/ ReturnToTimer

Shutdown ==
    \/ ShutdownBegin \/ ShutdownDisconnect \/ ShutdownRadioOff
    \/ ShutdownDeinit \/ ShutdownSleep \/ DeepSleepWake

Startup == SetupCameraFail \/ SetupCameraOk \/ SetupOnline \/ SetupOffline

Association == WifiBegin \/ WifiPoll \/ WifiConnected \/ WifiRetry \/ WifiGiveUp

Capture ==
    \/ TakePhotoNoHeap \/ TakePhotoFail \/ TakePhotoFrame
    \/ PhotoReconnect \/ PhotoOnline \/ PhotoWifiFailed \/ PhotoUploaded

Upload ==
    \/ UploadEntry \/ ConnectOk \/ ConnectFail \/ SendHeaders
    \/ WriteChunk \/ WriteShort \/ ResponseSeen \/ ResponseTimeout
    \/ ParseResponse

Next ==
    \/ Environment \/ Monitor \/ Scheduler \/ Shutdown \/ Startup
    \/ Association \/ Capture \/ Upload

Spec == Init /\ [][Next]_vars

\* takeAndUploadPhoto() alone
NextCycle ==
    \/ WifiLost \/ WifiAssociated \/ Association \/ Capture \/ Upload
    \/ ReturnToTimer

SpecCycle == InitCycle /\ [][NextCycle]_vars

\* The steps the processor takes by itself.  setup() and loop() run on one
\* task that is never suspended, so the next statement is always executed;
\* an armed ext0 source whose input is already low ends a light sleep at once
\* (lines 181, 331).  A press, a release, a loss of the access point and the
\* moment of an association are the environment's and are not forced.
Firmware ==
    \/ Monitor \/ TimerDue \/ TimerSleep \/ TimerWait \/ SleepTimerWake
    \/ (button = "LOW" /\ SleepButtonWake)
    \/ ReturnToButton \/ ReturnToTimer
    \/ ShutdownBegin \/ ShutdownDisconnect \/ ShutdownRadioOff
    \/ ShutdownDeinit \/ ShutdownSleep
    \/ Startup \/ Association \/ Capture \/ Upload

\* the boot, and a running device two ticks before the timed capture is due
InitLive ==
    /\ \/ InitBoot
       \/ /\ InitRunning /\ ~buttonPressed /\ wifi = "CONNECTED"
          /\ timeSinceLastPhoto = U32(PHOTO_INTERVAL - 2 * TICK_DELAY)
    /\ frameSizes = SmallFrames /\ responses = FewResponses
    /\ clock = NoClock

\* the whole firmware, with the processor making progress
SpecLive == InitLive /\ [][Next]_vars /\ WF_vars(Firmware)

(***************************************************************************)
(* loop() on the clock itself.  The tick of lines 334-391 with millis(),   *)
(* lastPhotoTime and buttonPressTime as 32 bit values (clock), and the     *)
(* differences computed from them as the code does (lines 350, 366, 381).  *)
(* takeAndUploadPhoto() and handleShutdown() read no stamp: here a capture *)
(* cycle is the time it takes, and a shutdown ends the boot.               *)
(* clock.sincePhoto and clock.sincePress are the times that have really    *)
(* passed since lastPhotoTime and buttonPressTime were written (ms).       *)
(***************************************************************************)
\* a subtraction that does not wrap: 0 when the clock is behind the stamp
Sub32Saturating(a, b) ==
    IF a.hi < b.hi \/ (a.hi = b.hi /\ a.lo < b.lo)
    THEN U32(0)
    ELSE LET d == a.lo - b.lo
         IN  [hi |-> a.hi - b.hi - (IF d < 0 THEN 1 ELSE 0),
              lo |-> (d + Half) % Half]

\* lines 350, 366, 381: millis() - stamp in unsigned long
Sub32(a, b) ==
    LET d == a.lo - b.lo
    IN  [hi |-> (a.hi - b.hi - (IF d < 0 THEN 1 ELSE 0) + Half) % Half,
         lo |-> (d + Half) % Half]

\* the 32 bit value 2^32 - n, for 0 < n < 2^31
BeforeWrap(n) ==
    [hi |-> Half - 1 - ((n - 1) \div Half), lo |-> (Half - (n % Half)) % Half]

\* what lastPhotoTime may hold at the start: shortly after boot; such that
\* the clock wraps around the time the capture becomes due; and such that it
\* has wrapped a little after the stamp was written
ClockStamps ==
    {U32(1000), BeforeWrap(PHOTO_INTERVAL - 150),
     BeforeWrap(LONG_PRESS_MS + 100)}
\* how long ago it was written (ms): as StartElapsed, and 24 days
ClockElapsed == StartElapsed \cup {2073600000}
\* how long a capture cycle may take (ms)
CaptureTimes == {3000, 65000}

\* d ms pass
ClockPass(c, d) ==
    [c EXCEPT !.millis = Add32(@, d), !.sincePhoto = @ + d,
              !.sincePress = @ + d]

\* a manual capture that restarts the interval as the timed one does
ManualCaptureStamped(c, d) ==
    [ClockPass(c, d) EXCEPT !.lastPhotoTime = Add32(c.millis, d),
                            !.sincePhoto = 0]

\* line 374: takeAndUploadPhoto() from the button branch takes d ms; neither
\* it (lines 425-486) nor the branch (lines 364-377) writes lastPhotoTime
ManualCapture(c, d) == ClockPass(c, d)

\* lines 350, 366, 381: the differences the code computes when the clock and
\* the stamps are c and a press is, or is not, in progress
ClockRead(c, pressed) ==
    /\ clock' = [c EXCEPT !.sincePress = IF pressed THEN @ ELSE 0]
    /\ timeSinceLastPhoto' = Sub32(c.millis, c.lastPhotoTime)
    /\ pressDuration' = IF pressed
                        THEN Sub32(c.millis, c.buttonPressTime)
                        ELSE U32(0)

ClockIdle == UNCHANGED <<cycles, wifi, frameSizes, responses, hwVars, contact,
                         caller, wifiCaller, wifiVars, upVars, cyc, upl>>

\* a tick boundary of loop() on a running device
InitClock ==
    /\ pc = "loop" /\ ticks = 0 /\ cycles = 0
    /\ button \in Levels /\ wifi = "CONNECTED"
    /\ wifiMode = "STA" /\ wifiSleep = FALSE /\ ext0Wake = TRUE
    /\ cameraInit = TRUE /\ fb = NoFrame /\ client = "closed" /\ rx = <<>>
    /\ contact = NoPress /\ LocalsIdle
    /\ frameSizes = SmallFrames /\ responses = FewResponses
    /\ \E stamp \in ClockStamps, e \in ClockElapsed, h \in {0} \cup StartHeld :
          /\ buttonPressed = (h > 0)
          /\ clock = [millis |-> Add32(stamp, e), lastPhotoTime |-> stamp,
                      buttonPressTime |-> Add32(stamp, e - h),
                      sincePhoto |-> e, sincePress |-> h]
          /\ timeSinceLastPhoto = Sub32(clock.millis, clock.lastPhotoTime)
          /\ pressDuration = IF buttonPressed
                             THEN Sub32(clock.millis, clock.buttonPressTime)
                             ELSE U32(0)

\* a press or a release between two ticks
ClockButtonChange ==
    /\ pc = "loop"
    /\ button' = IF button = "LOW" THEN "HIGH" ELSE "LOW"
    /\ UNCHANGED <<pc, ticks, timerVars, clock, buttonPressed, tick>>
    /\ ClockIdle

\* lines 340-349: buttonPressTime = millis(); delay(100)
ClockButtonDown ==
    /\ TickStart /\ button = "LOW" /\ ~buttonPressed
    /\ buttonPressed' = TRUE
    /\ ClockRead(ClockPass([clock EXCEPT !.buttonPressTime = clock.millis,
                                         !.sincePress = 0], 100),
                 TRUE)
    /\ pc' = "timer"
    /\ tick' = [TickIdle EXCEPT !.press = "down"]
    /\ UNCHANGED button /\ ClockIdle

\* lines 350-363: millis() - buttonPressTime > 3000: handleShutdown()
ClockButtonLong ==
    /\ TickStart /\ button = "LOW" /\ buttonPressed
    /\ LongPressHeld(pressDuration)
    /\ pc' = "deepsleep"
    /\ tick' = [TickIdle EXCEPT !.press = "long", !.dur = pressDuration]
    /\ UNCHANGED <<button, timerVars, clock, buttonPressed>> /\ ClockIdle

\* lines 340-363: the press is held, not yet beyond the threshold
ClockButtonHeld ==
    /\ TickStart /\ button = "LOW" /\ buttonPressed
    /\ ~LongPressHeld(pressDuration)
    /\ pc' = "timer"
    /\ tick' = [TickIdle EXCEPT !.press = "held", !.dur = pressDuration]
    /\ UNCHANGED <<button, timerVars, clock, buttonPressed>> /\ ClockIdle

\* lines 364-377: pressDuration < 3000: takeAndUploadPhoto(), which takes
\* d ms and leaves lastPhotoTime alone
ClockButtonShort ==
    /\ TickStart /\ button = "HIGH" /\ buttonPressed
    /\ ShortPress(pressDuration)
    /\ buttonPressed' = FALSE
    /\ \E d \in CaptureTimes : ClockRead(ManualCapture(clock, d), FALSE)
    /\ pc' = "timer"
    /\ tick' = [TickIdle EXCEPT !.press = "short", !.manual = 1,
                                !.dur = pressDuration]
    /\ UNCHANGED button /\ ClockIdle

\* lines 364-377: released after a press that was not short
ClockButtonReleasedLate ==
    /\ TickStart /\ button = "HIGH" /\ buttonPressed
    /\ ~ShortPress(pressDuration)
    /\ buttonPressed' = FALSE
    /\ ClockRead(clock, FALSE)
    /\ pc' = "timer"
    /\ tick' = [TickIdle EXCEPT !.press = "ignored", !.dur = pressDuration]
    /\ UNCHANGED button /\ ClockIdle

\* lines 364-377: the input is high and no press was in progress
ClockButtonIdle ==
    /\ TickStart /\ button = "HIGH" /\ ~buttonPressed
    /\ pc' = "timer"
    /\ tick' = TickIdle
    /\ UNCHANGED <<button, timerVars, clock, buttonPressed>> /\ ClockIdle

\* lines 381-384, 421: timeSinceLastPhoto >= PHOTO_INTERVAL:
\* takeAndUploadPhoto(), d ms; lastPhotoTime = millis(); delay(100)
ClockTimerDue ==
    /\ pc = "timer" /\ IsDue(timeSinceLastPhoto)
    /\ \E d \in CaptureTimes :
          LET c == ClockPass(clock, d)
          IN  ClockRead(ClockPass([c EXCEPT !.lastPhotoTime = c.millis,
                                            !.sincePhoto = 0], TICK_DELAY),
                        buttonPressed)
    /\ pc' = "loop"
    /\ tick' = [tick EXCEPT !.due = TRUE, !.timed = @ + 1]
    /\ UNCHANGED <<ticks, button, buttonPressed>> /\ ClockIdle

\* lines 385-390, 172-186, 421: enterLightSleep() until the timer wakes the
\* device; delay(100)
ClockTimerSleep ==
    /\ pc = "timer" /\ ~IsDue(timeSinceLastPhoto)
    /\ IdleWindow(timeSinceLastPhoto)
    /\ ClockRead(ClockPass(clock, LIGHT_SLEEP_DURATION \div 1000 + TICK_DELAY),
                 buttonPressed)
    /\ pc' = "loop"
    /\ tick' = [tick EXCEPT !.slept = TRUE]
    /\ UNCHANGED <<ticks, button, buttonPressed>> /\ ClockIdle

\* lines 385-391, 421: neither due nor far from due: delay(100)
ClockTimerWait ==
    /\ pc = "timer" /\ ~IsDue(timeSinceLastPhoto)
    /\ ~IdleWindow(timeSinceLastPhoto)
    /\ ClockRead(ClockPass(clock, TICK_DELAY), buttonPressed)
    /\ pc' = "loop"
    /\ UNCHANGED <<ticks, button, buttonPressed, tick>> /\ ClockIdle

NextClock ==
    \/ ClockButtonChange \/ ClockButtonDown \/ ClockButtonLong
    \/ ClockButtonHeld \/ ClockButtonShort \/ ClockButtonReleasedLate
    \/ ClockButtonIdle \/ ClockTimerDue \/ ClockTimerSleep \/ ClockTimerWait

SpecClock == InitClock /\ [][NextClock]_vars

(***************************************************************************)
(* Properties.                                                             *)
(***************************************************************************)
\* C1: in every takeAndUploadPhoto() a frame obtained by Camera.get() is
\* released by Camera.free() exactly once before the call returns, on every
\* exit path; Camera.free() is never called without a frame; no frame is held
\* at the start of a loop() tick.
FrameLifetime ==
    LET \* inside takeAndUploadPhoto(), after takePhoto() has returned true
        holding == /\ pc \in {"wifiCheck", "wifiBegin", "wifiWait",
                              "wifiFailed", "upload", "connect", "headers",
                              "write", "parse", "uploadRet"}
                   /\ wifiCaller # "setup"
    IN  /\ ~cyc.badFree
        /\ cyc.gets <= 1 /\ cyc.frees <= cyc.gets
        /\ (fb # NoFrame) <=> (cyc.gets = 1 /\ cyc.frees = 0)
        /\ (fb # NoFrame) => holding
        /\ pc = "photoRet" => (cyc.frees = cyc.gets /\ fb = NoFrame)
        /\ pc \in {"loop", "timer", "photo"} => fb = NoFrame

\* C1: an accepted frame has been uploaded and released, the call is returning
FrameLifetimeWitness ==
    /\ pc = "photoRet" /\ upl.outcome = "Success"
    /\ cyc.gets = 1 /\ cyc.frees = 1 /\ cyc.frame.len = 1025

\* C2: the upload attempts a TLS connection exactly when the station is
\* associated, the buffer is not null and the frame length L satisfies
\* 0 < L <= 500000; otherwise the cycle ends with no connection attempt, no
\* request and no payload byte.
UploadPreconditions ==
    LET f == cyc.frame
        valid == /\ cyc.gets = 1 /\ f.buf = "data"
                 /\ 0 < f.len /\ f.len <= 500000
                 /\ upl.pre = "CONNECTED"
    IN  /\ pc \in {"uploadRet", "photoRet"} => (upl.conns > 0 <=> valid)
        /\ upl.conns > 0 => valid
        /\ upl.conns = 0 =>
              (upl.headers = 0 /\ upl.writes = 0 /\ upl.bytes = 0
               /\ client = "closed")

\* C2: a frame of the largest accepted length went through a connection
\* attempt, and the cycle is returning
UploadPreconditionsWitness ==
    /\ pc = "photoRet" /\ cyc.frame.len = 500000 /\ upl.conns > 0

\* C3: on every tick where the elapsed time since lastPhotoTime is at least
\* the interval exactly one timed capture cycle runs, and when it returns
\* lastPhotoTime is set to the current time whatever the outcome (only the
\* delay(100) that ends the tick has passed when the next tick begins); at a
\* tick where the elapsed time is below the interval no timed capture starts.
\* A tick that leaves loop() for handleShutdown() has run no capture cycle.
CaptureSchedulerClaim ==
    [][ /\ (pc = "timer" /\ pc' # "timer") =>
            IF Val32(timeSinceLastPhoto) >= 3600000
            THEN pc' = "photo" /\ caller' = "timer" /\ tick'.timed = 1
            ELSE pc' \in {"loop", "lightsleep"} /\ tick'.timed = tick.timed
        /\ (pc = "photoRet" /\ caller = "timer") =>
            (pc' = "loop" /\ timeSinceLastPhoto' = U32(100)
             /\ tick'.timed = 1)
        /\ tick'.timed <= 1
        /\ (pc = "loop" /\ pc' = "shutdown") =>
            Val32(timeSinceLastPhoto) < 3600000
      ]_vars

\* C4: a press of 2999 ms or less triggers a capture when it is released; a
\* press of 3000 ms or more (held that long, or released after that long)
\* triggers the deep-sleep transition; every completed press triggers one of
\* the two.
ButtonClassificationClaim ==
    /\ tick.press = "short" => Val32(tick.dur) <= 2999
    /\ tick.press = "long" => Val32(tick.dur) >= 3000
    /\ tick.press = "held" => Val32(tick.dur) <= 2999
    /\ tick.press # "ignored"

\* C5: with a socket that accepts every chunk whole the upload performs
\* exactly ceil(N / 1024) payload writes for a frame of N bytes, each of 1024
\* bytes except possibly the last, and goes on to the response phase; a
\* write that returns another count than the chunk length ends the upload
\* at once with failure, with no further write and the connection closed.
ChunkedWrite ==
    LET N == cyc.frame.len
        \* the upload has reached the response phase
        sentAll == \/ pc = "parse"
                   \/ upl.outcome \in {"Timeout", "ServerRejected", "Success"}
    IN  /\ upl.chunksOk
        /\ upl.writes > 0 => upl.declared = N
        /\ sentAll =>
              (upl.writes = (N + 1023) \div 1024 /\ upl.bytes = N /\ ~upl.short)
        /\ (pc = "write" /\ ~upl.short) =>
              (upl.bytes = totalSent /\ upl.writes = (totalSent + 1023) \div 1024
               /\ totalSent <= N)
        /\ upl.short =>
              (upl.outcome = "WriteFailed" /\ upl.afterShort = 0
               /\ client = "closed" /\ pc \in {"uploadRet", "photoRet"})
        /\ upl.outcome = "WriteFailed" => upl.short

\* C5: the largest frame, 488 chunks written whole and the last one short
ChunkedWriteWitness ==
    /\ pc = "uploadRet" /\ upl.outcome = "WriteFailed"
    /\ cyc.frame.len = 500000 /\ upl.writes = 489 /\ client = "closed"

\* C6: a capture cycle that finds the station disconnected after the capture
\* runs the reconnection (at most 3 association attempts, each waiting at
\* most 15 s) before any TLS connection attempt; when every attempt fails the
\* frame is released and the cycle ends without a TLS connection attempt and
\* without a request or payload byte.
WifiLossRecovery ==
    LET reconnecting == pc \in {"wifiBegin", "wifiWait", "wifiFailed"}
                        /\ wifiCaller # "setup" /\ cyc.active
        gaveUp == pc = "wifiFailed" \/ (pc = "photoRet" /\ cyc.lost
                                        /\ cyc.uploads = 0)
    IN  /\ cyc.assoc <= 3 /\ cyc.maxWait <= 15000
        /\ cyc.assoc > 0 => cyc.lost
        /\ reconnecting => (cyc.lost /\ ~upl.active /\ fb # NoFrame)
        /\ (cyc.lost /\ upl.active) => cyc.assoc >= 1
        /\ gaveUp =>
              (/\ cyc.assoc = 3 /\ cyc.maxWait = 15000
               /\ ~upl.active /\ upl.conns = 0 /\ upl.headers = 0
               /\ upl.writes = 0 /\ client = "closed")
        /\ (pc = "photoRet" /\ cyc.lost) => (fb = NoFrame /\ cyc.frees = 1)

\* C6: three association attempts of 15 s each have failed, the frame is
\* released and the cycle returns without an upload
WifiLossRecoveryWitness ==
    /\ pc = "photoRet" /\ cyc.lost /\ cyc.assoc = 3 /\ cyc.maxWait = 15000
    /\ cyc.uploads = 0 /\ cyc.frees = 1 /\ upl.conns = 0

\* C7: one upload makes at most 3 TLS connection attempts and none after the
\* first success; the 2 s backoff follows a failed attempt only when another
\* attempt follows; when all 3 fail the upload returns failure without a
\* request or payload byte.
ConnectionRetryBound ==
    /\ upl.conns <= 3
    /\ upl.backoffs = IF upl.lastFailed THEN Min(upl.conns, 2)
                      ELSE IF upl.conns = 0 THEN 0 ELSE upl.conns - 1
    /\ (upl.headers > 0 \/ client = "open") => (upl.conns > 0 /\ ~upl.lastFailed)
    /\ pc = "connect" => (upl.conns < 3 /\ (upl.conns > 0 => upl.lastFailed))
    /\ (upl.lastFailed /\ pc \in {"uploadRet", "photoRet"}) =>
          (/\ upl.outcome = "ConnectFailed" /\ upl.conns = 3
           /\ upl.headers = 0 /\ upl.writes = 0 /\ upl.bytes = 0)
    /\ upl.outcome = "ConnectFailed" => upl.lastFailed

\* C7: three attempts have failed, two backoffs were waited
ConnectionRetryBoundWitness ==
    /\ pc = "uploadRet" /\ upl.outcome = "ConnectFailed"
    /\ upl.conns = 3 /\ upl.backoffs = 2

\* C8: a TLS connection established by the upload is closed on every path by
\* which the upload returns: none is open after it has returned.
ConnectionClosure ==
    /\ client = "open" => pc \in {"headers", "write", "parse"}
    /\ (upl.active /\ pc \in {"uploadRet", "photoRet"}) => client = "closed"

\* C8: the upload returns after a response timeout on an established
\* connection
ConnectionClosureWitness ==
    /\ pc = "uploadRet" /\ upl.outcome = "Timeout" /\ upl.headers = 1
    /\ client = "closed"

\* C9: once the payload is sent and a response has arrived, the upload
\* reports success exactly when the status line of the response contains
\* "200" or "201" anywhere, and failure for every other status line and when
\* no status line is read before the blank line.
StatusInterpretationClaim ==
    LET first == Trim(ReadStringUntil(upl.resp, "\n")[1])
        isStatusLine == StartsWith(first, <<"H", "T", "T", "P", "/">>)
        has(code) == IndexOf(first, code) >= 0
    IN  upl.resp # <<>> =>
            (upl.outcome = "Success" <=>
                (isStatusLine /\ (has(Code200) \/ has(Code201))))

\* C10: while the device is in light sleep, in the shutdown sequence or in
\* deep sleep no capture, WiFi reconnection, TLS connection or write is in
\* progress; once handleShutdown() has been called in a tick, nothing but the
\* shutdown sequence and deep sleep follows until the restart, and that tick
\* has run no capture.
NoNetworkWhileAsleep ==
    LET shutting == pc \in {"shutdown", "sdDisconnect", "sdRadioOff",
                            "sdDeinit", "sdWake", "deepsleep"}
        asleep == pc = "lightsleep" \/ shutting
    IN  /\ asleep =>
              (/\ ~cyc.active /\ ~upl.active
               /\ caller = "none" /\ wifiCaller = "none"
               /\ client = "closed" /\ rx = <<>> /\ fb = NoFrame)
        /\ tick.press = "long" =>
              (shutting /\ tick.timed = 0 /\ tick.manual = 0)

\* C10: the device is in light sleep in the tick in which a short press has
\* run a capture cycle
NoNetworkWhileAsleepWitness ==
    /\ pc = "lightsleep" /\ tick.manual = 1 /\ cycles = 1 /\ wifiSleep

\* C11: a due timed capture is never dropped by a sleep transition: at the
\* tick in which loop() decides to enter light sleep, or to start the
\* long-press shutdown that ends in deep sleep, the timed capture is not due
\* (a due one has been run by then).
CaptureDueServiced ==
    [][ /\ (pc = "timer" /\ pc' = "lightsleep") =>
              Val32(timeSinceLastPhoto) < 3600000
        /\ (pc = "loop" /\ pc' = "shutdown") =>
              (Val32(timeSinceLastPhoto) < 3600000 \/ tick'.timed = 1)
      ]_vars

\* C12: deep sleep is entered only from a long-press tick and only after
\* WiFi.disconnect(), WiFi.mode(WIFI_OFF), Camera.deinit(), the arming of
\* ext0 and the flush of the diagnostics, in this order; in deep sleep the
\* radio is off, the camera is released and the wake source is armed.
ShutdownOrder ==
    LET done == <<"disconnect", "radioOff", "deinit", "flush", "ext0", "flush">>
        at == [shutdown |-> 0, sdDisconnect |-> 0, sdRadioOff |-> 1,
               sdDeinit |-> 2, sdWake |-> 4, deepsleep |-> 6]
    IN  /\ pc \in DOMAIN at =>
              (tick.steps = SubSeq(done, 1, at[pc]) /\ tick.press = "long")
        /\ pc \notin DOMAIN at => tick.steps = <<>>
        /\ pc = "deepsleep" =>
              (/\ wifi = "DISCONNECTED" /\ wifiMode = "OFF"
               /\ ~cameraInit /\ ext0Wake)

\* C12: deep sleep has been entered from a boot whose camera and radio were
\* in use
ShutdownOrderWitness ==
    /\ pc = "deepsleep" /\ Len(tick.steps) = 6
    /\ ~tick.badDeinit /\ ~tick.badRadioOff

\* C13: a light sleep ends within one 30 s quantum; a press that began
\* during light sleep and is still asserted is taken up by the next tick; a
\* press that began during light sleep and is held past 3000 ms is answered
\* with the deep-sleep transition no later than one quantum plus one tick
\* after the 3000 ms; and a press that began during light sleep and lasted
\* less than 3000 ms, once a tick has taken it up, is never passed over
\* without a capture.
PressDuringLightSleep ==
    [][ LET quantum == 30000
            period == 100
            began == contact.origin = "sleep"
        IN  /\ (pc = "lightsleep" /\ pc' = "loop") =>
                  Val32(timeSinceLastPhoto') - Val32(timeSinceLastPhoto)
                      <= quantum + period
            /\ (began /\ pc = "loop" /\ pc' # "loop" /\ button = "LOW"
                      /\ ~buttonPressed) =>
                  tick'.press = "down"
            /\ (began /\ pc = "loop" /\ pc' = "shutdown") =>
                  contact.low <= 3000 + quantum + period
            /\ (began /\ contact.seen /\ tick'.press = "ignored") =>
                  contact.len >= 3000
      ]_vars

\* C14: in a boot whose camera initialisation failed no capture cycle is
\* started, by the interval timer or by a short press, and no upload is
\* attempted; the device does not go on to the ticks of loop() as if the
\* camera were there.
CameraFailureFatal ==
    LET \* the camera is not initialised and the boot is past setup()
        failed == ~cameraInit /\ pc \notin {"setup", "sdWake", "deepsleep"}
    IN  failed =>
            (/\ pc \notin {"photo", "photoRet"}
             /\ cycles = 0 /\ tick.timed = 0 /\ tick.manual = 0
             /\ ~cyc.active /\ ~upl.active /\ client = "closed")

\* C15: the shutdown sequence never issues the release of a resource that
\* is not held: Camera.deinit() runs only on an initialised camera and
\* WiFi.mode(WIFI_OFF) only on a radio that is on; and whatever the state
\* it starts from, the sequence ends in the same state (radio off, camera
\* released, ext0 armed).
ShutdownIdempotent ==
    /\ ~tick.badDeinit /\ ~tick.badRadioOff
    /\ pc = "deepsleep" =>
          (wifi = "DISCONNECTED" /\ wifiMode = "OFF" /\ ~cameraInit /\ ext0Wake)

\* C16: light sleep is entered only at a tick in which no press is in
\* progress, no timed capture was due, and more than 60 s remain to the next
\* timed capture; when the sleep ends the capture is still not due.
LightSleepEntryGuard ==
    [][ /\ (pc = "timer" /\ pc' = "lightsleep") =>
              (/\ ~buttonPressed
               /\ tick.press \notin {"down", "held"}
               /\ ~tick.due /\ tick.timed = 0
               /\ 3600000 - Val32(timeSinceLastPhoto) > 60000)
        /\ (pc = "lightsleep" /\ pc' = "loop") =>
              Val32(timeSinceLastPhoto') < 3600000
      ]_vars

\* C17: within one upload the request line and the headers are written, once,
\* before the first payload byte; the payload is written from the held frame
\* buffer in chunks at consecutive increasing offsets; and when the write
\* phase is complete the number of payload bytes written equals the declared
\* Content-Length, which equals the frame length.
RequestOrdering ==
    LET \* every payload byte has been written
        complete == \/ pc = "parse"
                    \/ pc = "write" /\ totalSent = imageSize
                    \/ upl.outcome \in {"Timeout", "ServerRejected", "Success"}
    IN  /\ upl.headers <= 1
        /\ upl.writes > 0 => upl.headers = 1
        /\ pc = "headers" => (upl.headers = 0 /\ upl.writes = 0)
        /\ pc \in {"headers", "write"} =>
              (imageData = fb.buf /\ imageSize = fb.len /\ fb = cyc.frame)
        /\ pc = "write" => (upl.chunksOk /\ (~upl.short => upl.bytes = totalSent))
        /\ complete =>
              (/\ upl.headers = 1 /\ upl.bytes = upl.declared
               /\ upl.declared = cyc.frame.len)

\* C17: a frame of 2049 bytes has been sent in three chunks after the
\* headers and the response is about to be read
RequestOrderingWitness ==
    /\ pc = "parse" /\ upl.headers = 1 /\ upl.writes = 3
    /\ upl.bytes = 2049 /\ upl.declared = 2049

\* C18: from the call of takeAndUploadPhoto() to its return no other capture
\* cycle starts, no tick begins (the button is not evaluated), and neither
\* the shutdown sequence nor a sleep runs: the radio is not turned off and
\* the camera is not released while an upload is in flight, also when the
\* button is held beyond 3000 ms in the meantime.
CycleAtomicity ==
    [][ LET inCycle == caller # "none"
            away == {"loop", "timer", "lightsleep", "shutdown",
                     "sdDisconnect", "sdRadioOff", "sdDeinit", "sdWake",
                     "deepsleep", "setup"}
        IN  /\ inCycle =>
                  (/\ ticks' = ticks /\ cycles' = cycles /\ tick' = tick
                   /\ buttonPressed' = buttonPressed \/ caller' = "none"
                   /\ pc' \in away => caller' = "none"
                   /\ pc' \notin {"lightsleep", "shutdown", "deepsleep"}
                   /\ wifiMode' = "STA" \/ wifiMode' = wifiMode
                   /\ cameraInit' = cameraInit)
            /\ client' = "open" => (caller' # "none" /\ wifiMode' = "STA"
                                    /\ cameraInit')
      ]_vars

\* C18: the button has been held for more than 3000 ms while the payload
\* of a timed capture is being written
CycleAtomicityWitness ==
    /\ pc = "write" /\ client = "open" /\ caller = "timer"
    /\ button = "LOW" /\ buttonPressed /\ Val32(pressDuration) > 3000

\* C19: every light sleep is entered with the modem power save enabled and
\* left with it disabled, and the wake-up goes back to the tick loop within
\* the same tick whatever ended the sleep; the power save is disabled
\* whenever a WiFi reconnection or an upload is in progress.
LightSleepWake ==
    [][ LET network == {"wifiBegin", "wifiWait", "wifiFailed", "upload",
                        "connect", "headers", "write", "parse", "uploadRet"}
        IN  /\ (pc # "lightsleep" /\ pc' = "lightsleep") => wifiSleep'
            /\ pc = "lightsleep" =>
                  (/\ wifiSleep
                   /\ pc' = "loop" /\ ~wifiSleep'
                   /\ ticks' = ticks /\ tick' = tick)
            /\ pc \in network => ~wifiSleep
            /\ pc' \in network => ~wifiSleep'
      ]_vars

\* C19: a light sleep has just ended and the power save is disabled again
LightSleepWakeWitness ==
    /\ pc = "loop" /\ tick.slept /\ ~wifiSleep /\ wifiMode = "STA"

\* C20: when no response byte becomes available within 15000 ms of the last
\* payload byte the upload returns failure (Timeout) with the connection
\* closed and without reading a status; when a byte becomes available within
\* the 15000 ms the wait ends and the status line is parsed.
ResponseTimeoutClaim ==
    LET parsed == pc = "parse" \/ upl.outcome \in {"Success", "ServerRejected"}
    IN  /\ upl.arrival > 15000 =>
              (/\ ~parsed /\ upl.outcome = "Timeout" /\ upl.resp = <<>>
               /\ client = "closed")
        /\ (upl.arrival >= 0 /\ upl.arrival <= 15000) =>
              (parsed /\ upl.outcome # "Timeout")
        /\ upl.outcome = "Timeout" =>
              (upl.arrival > 15000 /\ upl.resp = <<>> /\ client = "closed")

\* C21: while the device is not in deep sleep every loop tick terminates:
\* from any point inside setup() or a tick the firmware comes back to the
\* entry of loop() (or ends in deep sleep), so the input is polled again and
\* a press that stays asserted is eventually taken up as a press in
\* progress: the states outside a tick, and the states in which no low input
\* is waiting to be taken up, each recur for ever.  The ticks and capture
\* cycles of one boot are explored up to MaxTicks and MaxCycles; a behaviour
\* that has used them up is not followed further.
ButtonResponsiveness ==
    /\ []<>(\/ pc \in {"loop", "deepsleep"}
            \/ pc = "timer" /\ IsDue(timeSinceLastPhoto)
               /\ cycles >= MaxCycles)
    /\ []<>(\/ buttonPressed \/ button = "HIGH" \/ pc = "deepsleep"
            \/ pc = "loop" /\ ticks >= MaxTicks
            \/ pc = "timer" /\ IsDue(timeSinceLastPhoto)
               /\ cycles >= MaxCycles)

\* a press that was low through a whole capture cycle with its association
\* wait, connection attempts, write and response wait is taken up by the
\* next tick
ButtonResponsivenessWitness ==
    /\ tick.press = "down" /\ buttonPressed /\ cycles >= 1
    /\ upl.arrival >= 0


\* C22: with millis(), lastPhotoTime and buttonPressTime as 32 bit values
\* the differences the code computes are the times that have really passed
\* (below 2^32 ms), whether or not the clock has wrapped since the stamp was
\* written: the timed capture is due exactly when an interval has passed
\* since lastPhotoTime was written, and a press is long exactly when it has
\* lasted more than 3 s and short exactly when it has lasted less.
ClockWrapAround ==
    /\ timeSinceLastPhoto = U32(clock.sincePhoto)
    /\ IsDue(timeSinceLastPhoto) <=> clock.sincePhoto >= PHOTO_INTERVAL
    /\ tick.due => clock.millis = Add32(clock.lastPhotoTime, TICK_DELAY)
    /\ buttonPressed =>
          /\ pressDuration = U32(clock.sincePress)
          /\ LongPressHeld(pressDuration) <=> clock.sincePress > LONG_PRESS_MS
          /\ ShortPress(pressDuration) <=> clock.sincePress < LONG_PRESS_MS

\* the scheduler finds the capture due, and a press in progress, when the
\* clock has wrapped since lastPhotoTime and since buttonPressTime were
\* written
ClockWrapAroundWitness ==
    /\ clock # NoClock /\ pc = "timer" /\ IsDue(timeSinceLastPhoto)
    /\ clock.millis.hi < clock.lastPhotoTime.hi
    /\ buttonPressed /\ clock.millis.hi < clock.buttonPressTime.hi


\* C23: a capture cycle started by a short press leaves lastPhotoTime as it
\* is: in loop() only the timed-capture branch writes it.  So the scheduler
\* runs the timed capture exactly when an interval has passed since the
\* stamp of the previous timed capture (or of setup), also in the tick in
\* which a manual capture has just run.
ManualKeepsSchedule ==
    [][/\ (pc = "loop" /\ tick'.press = "short" /\ pc' = "timer") =>
             /\ clock'.lastPhotoTime = clock.lastPhotoTime
             /\ clock'.sincePhoto \in {clock.sincePhoto + d : d \in CaptureTimes}
       /\ clock'.lastPhotoTime # clock.lastPhotoTime =>
             pc = "timer" /\ tick'.timed = tick.timed + 1
       /\ (pc = "timer" /\ pc' # "timer") =>
             /\ tick'.timed = tick.timed + 1
                   <=> clock.sincePhoto >= PHOTO_INTERVAL
             /\ tick'.timed = tick.timed + 1 =>
                   clock'.millis = Add32(clock'.lastPhotoTime, TICK_DELAY)
      ]_vars

\* a manual capture and a timed capture have run, one after the other, in
\* the same tick, and the timed one was due by the old stamp
ManualKeepsScheduleWitness ==
    /\ clock # NoClock /\ pc = "loop"
    /\ tick.press = "short" /\ tick.manual = 1 /\ tick.timed = 1

====
